---- MODULE Spec2Model ----
(***************************************************************************)
(* Model of src/backend/drm/atomic/session.rs: the AtomicDrmDeviceObserver *)
(* that reacts to session signals (pause / activate) for an atomic         *)
(* mode-setting DRM device and resets the device state after a tty switch. *)
(*                                                                         *)
(* The observer runs synchronously on the thread that dispatches the       *)
(* signal.  Every statement of pause, activate and reset_state that makes  *)
(* a kernel call or writes shared state is one step of the model, so that  *)
(* the states another thread can observe in between are states of the      *)
(* model.  Kernel calls draw their outcome (success / failure) from        *)
(* BOOLEAN.  A panic (a failed expect) ends in pc = "aborted".            *)
(*                                                                         *)
(* The observer reaches the device and the registry through two weak       *)
(* references that expire independently of each other and of the surfaces; *)
(* the owners drop them between two signals (the registry is an Rc, used   *)
(* on the dispatching thread only).  The registry is walked in the order   *)
(* of its keys.  calls, req, resetRes and ret describe the handling that   *)
(* is running or has just ended (pc = "done"); they are gone once the      *)
(* callback has returned to the signaler (pc = "idle").                    *)
(***************************************************************************)
EXTENDS Integers, Sequences, FiniteSets, TLC

\* ------------------------------------------------------------------ bounds

\* Number of CRTCs of the device; each CRTC can carry one surface.
NumSurfaces == 2

\* ------------------------------------------------- identities and handles

\* stat::major(self.dev_id) / stat::minor(self.dev_id)
DevMajor == 226
DevMinor == 1

\* device.as_raw_fd(): the descriptor of the open device connection
DevFd == 3
\* a descriptor a signal can carry as new_fd
OtherFd == 4

\* crtc::Handle values: keys of the surface registry
Crtcs == 1 .. NumSurfaces
\* connector::Handle values (disjoint from the CRTC handles)
ConnBase == 10
Connectors == { ConnBase + c : c \in Crtcs }

\* res_handles.connectors() / res_handles.crtcs(): slices in handle order
RECURSIVE SeqOfRange(_, _)
SeqOfRange(lo, hi) == IF lo > hi THEN << >> ELSE << lo >> \o SeqOfRange(lo + 1, hi)

connectors == SeqOfRange(ConnBase + 1, ConnBase + NumSurfaces)
crtcs == SeqOfRange(1, NumSurfaces)

\* ------------------------------------------------------ property mapping

\* kernel-assigned property ids: one per (object, property name)
NameIndex(name) ==
    CASE name = "CRTC_ID" -> 1
      [] name = "MODE_ID" -> 2
      [] name = "ACTIVE"  -> 3

PropId(handle, name) == handle * 4 + NameIndex(name)

\* dev.prop_mapping with every handle and every name present
FullMapping ==
    [ conn |-> [ h \in Connectors |-> [ n \in {"CRTC_ID"} |-> PropId(h, n) ] ],
      crtc |-> [ h \in Crtcs |-> [ n \in {"MODE_ID", "ACTIVE"} |-> PropId(h, n) ] ] ]

\* mappings the collaborator that builds prop_mapping may hand over: the
\* complete one, one without the entry of the last connector, one whose
\* last CRTC lacks MODE_ID
PropMappings ==
    { FullMapping,
      [ FullMapping EXCEPT !.conn =
            [ h \in Connectors \ {ConnBase + NumSurfaces} |-> FullMapping.conn[h] ] ],
      [ FullMapping EXCEPT !.crtc[NumSurfaces] =
            [ n \in {"ACTIVE"} |-> PropId(NumSurfaces, n) ] ] }

\* ------------------------------------------------------- surface values

\* State { mode, connectors, .. } of a surface: the mode record is a number,
\* 0 being the all-zero bit pattern std::mem::zeroed() produces
ZeroedMode == 0

\* the configuration surface c was created with and has committed
SurfaceState(c) == [ connectors |-> {ConnBase + c}, mode |-> c ]

\* CursorState { position, hotspot, framebuffer }; << >> is None for the
\* position, 0 is None for the framebuffer
CursorState(position, hotspot, framebuffer) ==
    [ position |-> position, hotspot |-> hotspot, framebuffer |-> framebuffer ]

\* a cursor the compositor has set on surface c
ShownCursor(c) == CursorState(<< c, c >>, << 1, 1 >>, c)

\* ------------------------------------------------------------- signals

SessionSignal ==
    { [ kind |-> "PauseSession", major |-> 0, minor |-> 0, new_fd |-> 0 ],
      [ kind |-> "ActivateSession", major |-> 0, minor |-> 0, new_fd |-> 0 ] }
    \cup { [ kind |-> "PauseDevice", major |-> ma, minor |-> mi, new_fd |-> 0 ] :
             ma \in {DevMajor, DevMajor + 1}, mi \in {DevMinor, DevMinor + 1} }
    \cup { [ kind |-> "ActivateDevice", major |-> ma, minor |-> mi, new_fd |-> fd ] :
             ma \in {DevMajor, DevMajor + 1}, mi \in {DevMinor, DevMinor + 1},
             fd \in {0, OtherFd} }

\* no signal is being handled
NoSignal == [ kind |-> "None", major |-> 0, minor |-> 0, new_fd |-> 0 ]

VARIABLES
    privileged,   \* self.privileged
    prop_mapping, \* dev.prop_mapping
    devAlive,     \* self.dev.upgrade() is Some
    regAlive,     \* self.backends.upgrade() is Some
    live,         \* live[c]: the registry's weak reference for CRTC c upgrades
    active,       \* self.active
    master,       \* the process holds the DRM master lock
    state,        \* state[c]: surface.state, the current atomic state
    pending,      \* pending[c]: surface.pending
    cursor,       \* cursor[c]: surface.cursor
    blob,         \* blob[c]: the mode property blob of surface c
    hwCrtcOf,     \* hardware: hwCrtcOf[conn], the CRTC_ID of a connector (0: none)
    hwActive,     \* hardware: ACTIVE of each CRTC
    hwMode,       \* hardware: MODE_ID of each CRTC as the mode it names (0: none)
    hwCursor,     \* hardware: the cursor plane of the CRTC shows a cursor
    fdTable,      \* process descriptor table: descriptor -> open connection
    pc,           \* position of the observer
    sig,          \* the signal being handled, or just handled
    activeAtStart,\* value of the flag when sig was dispatched
    todo,         \* surfaces the running loop has still to visit
    cur,          \* surface of the running loop iteration (0: none)
    locks,        \* per-surface locks the observer holds: <<surface, lock>>
    req,          \* the AtomicModeReq of reset_state
    calls,        \* kernel calls and flag stores of the handling of sig, in order
    commitFlags,  \* flags of the atomic commit submitted while handling sig
    resetRes,     \* what reset_state returned to activate
    ret,          \* what signal() handed back to the signaler
    hist          \* the signal handled before sig (discarded ones aside) was
                  \* PauseSession and every call of its handling succeeded

vars == << privileged, prop_mapping, devAlive, regAlive, live, active, master,
           state, pending, cursor, blob, hwCrtcOf, hwActive, hwMode, hwCursor,
           fdTable, pc, sig, activeAtStart, todo, cur, locks, req, calls,
           commitFlags, resetRes, ret, hist >>

\* variables no step of the observer writes
observerConst == << privileged, prop_mapping, devAlive, regAlive, live, pending >>

\* the hardware configuration
hw == << hwCrtcOf, hwActive, hwMode >>

\* ------------------------------------------- the surface and the device

\* surface.clear_plane(plane) succeeds: the plane shows nothing any more
clear_plane(shown, c) == [ shown EXCEPT ![c] = FALSE ]

\* surface.use_mode(mode) succeeds: the blob that describes the mode is
\* created anew
use_mode(blobs, c) == [ blobs EXCEPT ![c] = "regenerated" ]

\* device.release_master_lock() succeeds
release_master_lock == FALSE

\* device.acquire_master_lock() succeeds
acquire_master_lock == TRUE

\* ---------------------------------------------------------------- helpers

\* one entry of calls
Call(op, obj, ok) == [ op |-> op, obj |-> obj, ok |-> ok ]

\* LiveSurfaces as it would be without the filter_map(WeakArc::upgrade)
LiveSurfaces_NoUpgrade == IF regAlive THEN Crtcs ELSE {}

\* backends.borrow().values().filter_map(WeakArc::upgrade)
LiveSurfaces == IF regAlive THEN { c \in Crtcs : live[c] } ELSE {}

\* the element the iterator over the registry yields next; the map is
\* walked in the order of its keys
NextSurface(rest) == CHOOSE c \in rest : \A d \in rest : c <= d

\* every call of a handling succeeded
AllOk(log) == \A i \in 1 .. Len(log) : log[i].ok

Init ==
    /\ privileged \in BOOLEAN
    /\ prop_mapping \in PropMappings
    /\ devAlive = TRUE
    /\ regAlive = TRUE
    /\ live = [ c \in Crtcs |-> TRUE ]
    /\ active = TRUE
    /\ master = privileged
    /\ state = [ c \in Crtcs |-> SurfaceState(c) ]
    /\ pending = [ c \in Crtcs |-> SurfaceState(c) ]
    /\ cursor = [ c \in Crtcs |-> ShownCursor(c) ]
    /\ blob = [ c \in Crtcs |-> "created" ]
    /\ hwCrtcOf = [ h \in Connectors |-> h - ConnBase ]
    /\ hwActive = [ c \in Crtcs |-> TRUE ]
    /\ hwMode = [ c \in Crtcs |-> c ]
    /\ hwCursor = [ c \in Crtcs |-> TRUE ]
    /\ fdTable = [ fd \in {DevFd, OtherFd} |-> IF fd = DevFd THEN "drm" ELSE "stale" ]
    /\ pc = "idle"
    /\ sig = NoSignal
    /\ activeAtStart = TRUE
    /\ todo = {}
    /\ cur = 0
    /\ locks = {}
    /\ req = << >>
    /\ calls = << >>
    /\ commitFlags = {}
    /\ resetRes = "none"
    /\ ret = "none"
    /\ hist = FALSE


\* ------------------------------------------------- the owners' side

\* the last Arc<Dev> is dropped: self.dev.upgrade() yields None from now on
drop_device ==
    /\ pc = "idle"
    /\ devAlive
    /\ devAlive' = FALSE
    /\ UNCHANGED << privileged, prop_mapping, regAlive, live, active, master,
                    state, pending, cursor, blob, hw, hwCursor, fdTable, pc,
                    sig, activeAtStart, todo, cur, locks, req, calls,
                    commitFlags, resetRes, ret, hist >>

\* the Rc of the registry is dropped: self.backends.upgrade() yields None
drop_backends ==
    /\ pc = "idle"
    /\ regAlive
    /\ regAlive' = FALSE
    /\ UNCHANGED << privileged, prop_mapping, devAlive, live, active, master,
                    state, pending, cursor, blob, hw, hwCursor, fdTable, pc,
                    sig, activeAtStart, todo, cur, locks, req, calls,
                    commitFlags, resetRes, ret, hist >>

\* the last Arc of surface c is dropped: its WeakArc no longer upgrades
drop_surface(c) ==
    /\ pc = "idle"
    /\ live[c]
    /\ live' = [ live EXCEPT ![c] = FALSE ]
    /\ UNCHANGED << privileged, prop_mapping, devAlive, regAlive, active, master,
                    state, pending, cursor, blob, hw, hwCursor, fdTable, pc,
                    sig, activeAtStart, todo, cur, locks, req, calls,
                    commitFlags, resetRes, ret, hist >>

\* ------------------------------------------------------------ dispatch

\* Mismatch as it would be if only a signal that differs in both numbers
\* were discarded
Mismatch_BothDiffer(major, minor) == major # DevMajor /\ minor # DevMinor

\* the identity test of pause and activate: the signal is for another device
Mismatch(major, minor) == major # DevMajor \/ minor # DevMinor

\* the devnum argument signal() passes: Some for the device-scoped variants
HasDevnum(s) == s.kind \in {"PauseDevice", "ActivateDevice"}

\* the handler returns without having done anything
ReturnAtOnce ==
    /\ pc' = "done"
    /\ ret' = "unit"
    /\ UNCHANGED << active, master, state, cursor, blob, hw, hwCursor, fdTable,
                    todo, cur, locks >>

\* pause(devnum): the identity test and the upgrade of the registry
pause(s) ==
    IF HasDevnum(s) /\ Mismatch(s.major, s.minor)
    THEN ReturnAtOnce
    ELSE /\ pc' = "pause_clear"
         /\ todo' = LiveSurfaces
         /\ UNCHANGED << active, master, state, cursor, blob, hw, hwCursor,
                         fdTable, cur, locks, ret >>

\* TakesDescriptor as it would be if the descriptor were not matched as Some
TakesDescriptor_Always(s) == HasDevnum(s) /\ devAlive

\* if let Some((_, _, Some(fd))) = devnum { if let Some(device) = self.dev.upgrade()
TakesDescriptor(s) == HasDevnum(s) /\ s.new_fd # 0 /\ devAlive

\* activate(devnum): the identity test and the choice of the first step
activate(s) ==
    IF HasDevnum(s) /\ Mismatch(s.major, s.minor)
    THEN ReturnAtOnce
    ELSE /\ pc' = IF TakesDescriptor(s)
                  THEN "activate_dup2"
                  ELSE "activate_acquire"
         /\ UNCHANGED << active, master, state, cursor, blob, hw, hwCursor,
                         fdTable, todo, cur, locks, ret >>

\* signal(signal): the match on the variant
signal(s) ==
    /\ pc = "idle"
    /\ sig' = s
    /\ IF s.kind \in {"PauseSession", "PauseDevice"} THEN pause(s) ELSE activate(s)
    /\ UNCHANGED << observerConst, activeAtStart, req, calls, commitFlags,
                    resetRes, hist >>

\* the handler has run to its end: pause / activate return ()
Return ==
    /\ pc' = "done"
    /\ ret' = "unit"

\* the signal applies to this observer
Applies(s) == ~ (HasDevnum(s) /\ Mismatch(s.major, s.minor))

\* the closure registered in link returns to the signaler; the locals of
\* the handling are gone
callback_return ==
    /\ pc = "done"
    /\ pc' = "idle"
    /\ hist' = IF Applies(sig)
               THEN sig.kind = "PauseSession" /\ AllOk(calls)
               ELSE hist
    /\ sig' = NoSignal
    /\ calls' = << >>
    /\ req' = << >>
    /\ commitFlags' = {}
    /\ resetRes' = "none"
    /\ ret' = "none"
    /\ activeAtStart' = active
    /\ UNCHANGED << observerConst, active, master, state, cursor, blob, hw,
                    hwCursor, fdTable, todo, cur, locks >>

\* ---------------------------------------------------------------- pause

\* RestAfterClear as it would be if a failed clear left the loop
RestAfterClear_Abort(c, ok) == IF ok THEN todo \ {c} ELSE {}

\* what the for loop of pause still has to visit after the clear on c: the
\* Err arm only logs
RestAfterClear(c, ok) == todo \ {c}

\* PauseStoreValue as it would be if the store were skipped after a failure
PauseStoreValue_SkippedOnFailure == IF AllOk(calls) THEN FALSE ELSE active

\* the value pause stores into the flag
PauseStoreValue == FALSE

\* surface.clear_plane(surface.planes.cursor) on one surface of the loop
pause_clear_plane(c, ok) ==
    /\ pc = "pause_clear"
    /\ todo # {}
    /\ c = NextSurface(todo)
    /\ hwCursor' = IF ok THEN clear_plane(hwCursor, c) ELSE hwCursor
    /\ calls' = Append(calls, Call("clear_plane", c, ok))
    /\ todo' = RestAfterClear(c, ok)
    /\ UNCHANGED << observerConst, active, master, state, cursor, blob, hw,
                    fdTable, pc, sig, activeAtStart, cur, locks, req,
                    commitFlags, resetRes, ret, hist >>

\* self.active.store(false, Ordering::SeqCst), once the loop is through
pause_store ==
    /\ pc = "pause_clear"
    /\ todo = {}
    /\ active' = PauseStoreValue
    /\ calls' = Append(calls, Call("store_false", 0, TRUE))
    /\ pc' = "pause_release"
    /\ UNCHANGED << observerConst, master, state, cursor, blob, hw, hwCursor,
                    fdTable, sig, activeAtStart, todo, cur, locks, req,
                    commitFlags, resetRes, ret, hist >>

\* MayLock as it would be if the privileged test were missing
MayLock_IgnoresPrivilege == devAlive

\* if self.privileged { if let Some(device) = self.dev.upgrade() { .. } }
MayLock == privileged /\ devAlive

\* device.release_master_lock() if privileged and the device upgrades
pause_release_master_lock(ok) ==
    /\ pc = "pause_release"
    /\ IF MayLock
       THEN /\ master' = IF ok THEN release_master_lock ELSE master
            /\ calls' = Append(calls, Call("release_master_lock", 0, ok))
       ELSE /\ ok
            /\ UNCHANGED << master, calls >>
    /\ Return
    /\ UNCHANGED << observerConst, active, state, cursor, blob, hw, hwCursor,
                    fdTable, sig, activeAtStart, todo, cur, locks, req,
                    commitFlags, resetRes, hist >>


\* ------------------------------------------------------------- activate

\* a panic: an expect() failed, the handler never returns
Panic == pc' = "aborted"

\* Dup2 with its two descriptors swapped
Dup2_Swapped(table, oldfd, newfd) == [ table EXCEPT ![oldfd] = table[newfd] ]

\* dup2(oldfd, newfd) succeeds: newfd names the connection oldfd names
Dup2(table, oldfd, newfd) == [ table EXCEPT ![newfd] = table[oldfd] ]

\* ActivateStoreValue as it would be if the flag followed the master lock
ActivateStoreValue_FollowsMaster == master

\* the value activate stores into the flag
ActivateStoreValue == TRUE

\* ::nix::unistd::dup2(device.as_raw_fd(), fd).expect(..)
activate_dup2(ok) ==
    /\ pc = "activate_dup2"
    /\ calls' = Append(calls, Call("dup2", sig.new_fd, ok))
    /\ IF ok
       THEN /\ fdTable' = Dup2(fdTable, DevFd, sig.new_fd)
            /\ pc' = "activate_acquire"
       ELSE /\ Panic
            /\ UNCHANGED fdTable
    /\ UNCHANGED << observerConst, active, master, state, cursor, blob, hw,
                    hwCursor, sig, activeAtStart, todo, cur, locks, req,
                    commitFlags, resetRes, ret, hist >>

\* device.acquire_master_lock() if privileged and the device upgrades
activate_acquire_master_lock(ok) ==
    /\ pc = "activate_acquire"
    /\ IF MayLock
       THEN /\ master' = IF ok THEN acquire_master_lock ELSE master
            /\ calls' = Append(calls, Call("acquire_master_lock", 0, ok))
       ELSE /\ ok
            /\ UNCHANGED << master, calls >>
    /\ pc' = "activate_store"
    /\ UNCHANGED << observerConst, active, state, cursor, blob, hw, hwCursor,
                    fdTable, sig, activeAtStart, todo, cur, locks, req,
                    commitFlags, resetRes, ret, hist >>

\* self.active.store(true, Ordering::SeqCst)
activate_store ==
    /\ pc = "activate_store"
    /\ active' = ActivateStoreValue
    /\ calls' = Append(calls, Call("store_true", 0, TRUE))
    /\ pc' = "reset_state"
    /\ UNCHANGED << observerConst, master, state, cursor, blob, hw, hwCursor,
                    fdTable, sig, activeAtStart, todo, cur, locks, req,
                    commitFlags, resetRes, ret, hist >>

\* the end of activate: the result of reset_state is matched (an Err is
\* logged with warn!) and activate returns ()
activate_return ==
    /\ pc = "activate_return"
    /\ Return
    /\ UNCHANGED << observerConst, active, master, state, cursor, blob, hw,
                    hwCursor, fdTable, sig, activeAtStart, todo, cur, locks,
                    req, calls, commitFlags, resetRes, hist >>

\* ---------------------------------------------------------- reset_state

\* req.add_property(handle, property, value)
add_property(r, handle, prop, kind, val) ==
    Append(r, [ obj |-> handle, prop |-> prop, kind |-> kind, val |-> val ])

\* prop_mapping.N.get(&handle).expect(..).get(name).expect(..) succeeds
HasProp(map, handle, name) ==
    /\ handle \in DOMAIN map
    /\ name \in DOMAIN map[handle]

\* the writes the connector loop adds for one connector
ConnectorWrites(r, conn) ==
    add_property(r, conn, prop_mapping.conn[conn]["CRTC_ID"], "CRTC", 0)

\* CrtcWrites without the write that resets MODE_ID
CrtcWrites_NoModeReset(r, crtc) ==
    add_property(r, crtc, prop_mapping.crtc[crtc]["ACTIVE"], "Boolean", 0)

\* the writes the CRTC loop adds for one CRTC: ACTIVE, then MODE_ID
CrtcWrites(r, crtc) ==
    add_property(
        add_property(r, crtc, prop_mapping.crtc[crtc]["ACTIVE"], "Boolean", 0),
        crtc, prop_mapping.crtc[crtc]["MODE_ID"], "Unknown", 0)

\* for conn in res_handles.connectors() { .. }, from position i on
RECURSIVE ConnectorLoop(_, _)
ConnectorLoop(r, i) ==
    IF i > Len(connectors) THEN r
    ELSE ConnectorLoop(ConnectorWrites(r, connectors[i]), i + 1)

\* for crtc in res_handles.crtcs() { .. }, from position i on
RECURSIVE CrtcLoop(_, _)
CrtcLoop(r, i) ==
    IF i > Len(crtcs) THEN r
    ELSE CrtcLoop(CrtcWrites(r, crtcs[i]), i + 1)

\* every lookup of the two loops finds its entry
LookupsSucceed ==
    /\ \A i \in 1 .. Len(connectors) :
          HasProp(prop_mapping.conn, connectors[i], "CRTC_ID")
    /\ \A i \in 1 .. Len(crtcs) :
          /\ HasProp(prop_mapping.crtc, crtcs[i], "MODE_ID")
          /\ HasProp(prop_mapping.crtc, crtcs[i], "ACTIVE")

\* the request reset_state builds from AtomicModeReq::new()
BuildReq == CrtcLoop(ConnectorLoop(<< >>, 1), 1)

\* the flags reset_state passes to atomic_commit
CommitFlags == {"AllowModeset"}

\* reset_state returns r to activate
ResetReturns(r) ==
    /\ resetRes' = r
    /\ pc' = "activate_return"

\* Try as it would be if the Result were dropped instead of propagated
Try_ErrIgnored(ok) == TRUE

\* the `?` after map_err: reset_state goes on exactly when the call was Ok
Try(ok) == ok

\* self.dev.upgrade() and ControlDevice::resource_handles(&*dev)
reset_state_resource_handles(ok) ==
    /\ pc = "reset_state"
    /\ IF devAlive
       THEN /\ calls' = Append(calls, Call("resource_handles", 0, ok))
            /\ IF Try(ok)
               THEN /\ pc' = "reset_build"
                    /\ UNCHANGED resetRes
               ELSE ResetReturns("Err")
       ELSE /\ ok
            /\ ResetReturns("Ok")
            /\ UNCHANGED calls
    /\ UNCHANGED << observerConst, active, master, state, cursor, blob, hw,
                    hwCursor, fdTable, sig, activeAtStart, todo, cur, locks,
                    req, commitFlags, ret, hist >>

\* LookupFails as it would be if the lookups ended in `?` instead of expect
LookupFails_AsErr == ResetReturns("Err")

\* .expect("Unknown handle") / .expect("Unknown property CRTC_ID") on a None
LookupFails == Panic /\ UNCHANGED resetRes

\* the two loops that fill the request; a missing entry panics
reset_state_build ==
    /\ pc = "reset_build"
    /\ IF LookupsSucceed
       THEN /\ req' = BuildReq
            /\ pc' = "reset_commit"
            /\ UNCHANGED resetRes
       ELSE /\ LookupFails
            /\ UNCHANGED req
    /\ UNCHANGED << observerConst, active, master, state, cursor, blob, hw,
                    hwCursor, fdTable, sig, activeAtStart, todo, cur, locks,
                    calls, commitFlags, ret, hist >>

\* the position of the last write of r to (handle, prop), 0 if there is none
LastWrite(r, handle, prop) ==
    LET hits == { i \in 1 .. Len(r) : r[i].obj = handle /\ r[i].prop = prop }
    IN  IF hits = {} THEN 0 ELSE CHOOSE i \in hits : \A j \in hits : j <= i

\* the value the kernel holds for (handle, name) once r is applied
Applied(r, handle, name, old) ==
    LET i == LastWrite(r, handle, PropId(handle, name))
    IN  IF i = 0 THEN old ELSE r[i].val

\* dev.atomic_commit(&[AtomicCommitFlags::AllowModeset], req): the kernel
\* applies all writes of the request or none
reset_state_atomic_commit(ok) ==
    /\ pc = "reset_commit"
    /\ calls' = Append(calls, Call("atomic_commit", 0, ok))
    /\ commitFlags' = CommitFlags
    /\ IF Try(ok)
       THEN /\ hwCrtcOf' = [ h \in Connectors |->
                               Applied(req, h, "CRTC_ID", hwCrtcOf[h]) ]
            /\ hwActive' = [ c \in Crtcs |->
                               Applied(req, c, "ACTIVE", IF hwActive[c] THEN 1 ELSE 0) = 1 ]
            /\ hwMode' = [ c \in Crtcs |-> Applied(req, c, "MODE_ID", hwMode[c]) ]
            /\ pc' = "reset_surfaces"
            /\ todo' = LiveSurfaces
            /\ UNCHANGED resetRes
       ELSE /\ ResetReturns("Err")
            /\ UNCHANGED << hw, todo >>
    /\ UNCHANGED << observerConst, active, master, state, cursor, blob,
                    hwCursor, fdTable, sig, activeAtStart, cur, locks, req,
                    ret, hist >>

\* Invalidated without the zeroing of the mode
Invalidated_KeepsMode(st) == [ st EXCEPT !.connectors = {} ]

\* the garbage current state: no connectors, a zeroed mode
Invalidated(st) == [ st EXCEPT !.connectors = {}, !.mode = ZeroedMode ]

\* EmptyCursor as it would be if the framebuffer were left set
EmptyCursor_FramebufferKept == CursorState(<< >>, << 0, 0 >>, 1)

\* the cursor state reset_state stores
EmptyCursor == CursorState(<< >>, << 0, 0 >>, 0)

\* one iteration begins: surface.state.write(), the two assignments to
\* current, and the read of pending.mode under a read lock that is released
\* at the end of its block
reset_state_invalidate(c) ==
    /\ pc = "reset_surfaces"
    /\ todo # {}
    /\ c = NextSurface(todo)
    /\ cur' = c
    /\ locks' = locks \cup { << c, "state" >> }
    /\ state' = [ state EXCEPT ![c] = Invalidated(state[c]) ]
    /\ pc' = "reset_use_mode"
    /\ UNCHANGED << observerConst, active, master, cursor, blob, hw, hwCursor,
                    fdTable, sig, activeAtStart, todo, req, calls, commitFlags,
                    resetRes, ret, hist >>

\* surface.use_mode(mode)?: the blob of the pending mode is created anew;
\* an Err leaves the function at once and drops the guard on the way
reset_state_use_mode(ok) ==
    /\ pc = "reset_use_mode"
    /\ calls' = Append(calls, Call("use_mode", cur, ok))
    /\ IF ok
       THEN /\ blob' = use_mode(blob, cur)
            /\ pc' = "reset_cursor"
            /\ UNCHANGED << resetRes, locks, cur, todo >>
       ELSE /\ ResetReturns("Err")
            /\ locks' = {}
            /\ cur' = 0
            /\ todo' = {}
            /\ UNCHANGED blob
    /\ UNCHANGED << observerConst, active, master, state, cursor, hw, hwCursor,
                    fdTable, sig, activeAtStart, req, commitFlags, ret, hist >>

\* RestAfterReset as it would be if the loop ended after its first surface
RestAfterReset_FirstOnly(c) == {}

\* what the for loop of reset_state still has to visit after surface c
RestAfterReset(c) == todo \ {c}

\* *surface.cursor.lock().unwrap() = CursorState { .. }; and the end of the
\* iteration, where the guard on the current state is dropped
reset_state_cursor ==
    /\ pc = "reset_cursor"
    /\ cursor' = [ cursor EXCEPT ![cur] = EmptyCursor ]
    /\ locks' = {}
    /\ todo' = RestAfterReset(cur)
    /\ cur' = 0
    /\ pc' = "reset_surfaces"
    /\ UNCHANGED << observerConst, active, master, state, blob, hw, hwCursor,
                    fdTable, sig, activeAtStart, req, calls, commitFlags,
                    resetRes, ret, hist >>

\* the loop is through (or the registry is gone): Ok(())
reset_state_ok ==
    /\ pc = "reset_surfaces"
    /\ todo = {}
    /\ ResetReturns("Ok")
    /\ UNCHANGED << observerConst, active, master, state, cursor, blob, hw,
                    hwCursor, fdTable, sig, activeAtStart, todo, cur, locks,
                    req, calls, commitFlags, ret, hist >>

\* ----------------------------------------------------------- the system

Next ==
    \/ \E s \in SessionSignal : signal(s)
    \/ \E c \in Crtcs, ok \in BOOLEAN : pause_clear_plane(c, ok)
    \/ pause_store
    \/ \E ok \in BOOLEAN : pause_release_master_lock(ok)
    \/ \E ok \in BOOLEAN : activate_dup2(ok)
    \/ \E ok \in BOOLEAN : activate_acquire_master_lock(ok)
    \/ activate_store
    \/ \E ok \in BOOLEAN : reset_state_resource_handles(ok)
    \/ reset_state_build
    \/ \E ok \in BOOLEAN : reset_state_atomic_commit(ok)
    \/ \E c \in Crtcs : reset_state_invalidate(c)
    \/ \E ok \in BOOLEAN : reset_state_use_mode(ok)
    \/ reset_state_cursor
    \/ reset_state_ok
    \/ activate_return
    \/ callback_return
    \/ drop_device
    \/ drop_backends
    \/ \E c \in Crtcs : drop_surface(c)

Spec == Init /\ [][Next]_vars


\* ------------------------------------------------ vocabulary of the claims

\* a device-scoped signal for another device: one differing number suffices
Discarded(s) ==
    /\ s.kind \in {"PauseDevice", "ActivateDevice"}
    /\ (s.major # DevMajor \/ s.minor # DevMinor)

\* a pause that applies to the observer
AppliedPause(s) ==
    \/ s.kind = "PauseSession"
    \/ s.kind = "PauseDevice" /\ s.major = DevMajor /\ s.minor = DevMinor

\* an activate that applies to the observer
AppliedActivate(s) ==
    \/ s.kind = "ActivateSession"
    \/ s.kind = "ActivateDevice" /\ s.major = DevMajor /\ s.minor = DevMinor

\* the surfaces of the registry that are alive
LiveInRegistry == { c \in Crtcs : regAlive /\ live[c] }

\* the positions of the calls op(obj) of this handling
Positions(op, obj) ==
    { i \in 1 .. Len(calls) : calls[i].op = op /\ calls[i].obj = obj }

\* how often op(obj) was called in this handling
Count(op, obj) == Cardinality(Positions(op, obj))

\* the positions of all calls of op, whatever the object
PositionsOf(op) == { i \in 1 .. Len(calls) : calls[i].op = op }

\* some call of op failed in this handling
Failed(op) == \E i \in PositionsOf(op) : ~ calls[i].ok

\* every call of as comes before every call of bs
Before(as, bs) == \A i \in PositionsOf(as), j \in PositionsOf(bs) : i < j

\* ------------------------------------------------------------------- C1

\* C1: handling a PauseDevice or ActivateDevice signal whose major or minor
\* differs from the identity of the device changes nothing: the handler
\* returns at once, having made no call (no cursor clear, no dup2, no master
\* lock call, no enumeration, no commit), and the flag, every surface's
\* current state and cursor state and all other state are as before.
C1_DiscardedSignalChangesNothing ==
    [][ (Discarded(sig') \/ Discarded(sig)) =>
            /\ pc' \in {"done", "idle"}
            /\ calls' = << >>
            /\ UNCHANGED << active, master, state, pending, cursor, blob, hw,
                            hwCursor, fdTable, locks, req, commitFlags,
                            resetRes, devAlive, regAlive, live >> ]_vars

\* an ActivateDevice that differs in the minor number only and carries a
\* descriptor has been handled while the device was paused
C1_Witness ==
    /\ pc = "done"
    /\ sig.kind = "ActivateDevice"
    /\ sig.major = DevMajor
    /\ sig.minor # DevMinor
    /\ sig.new_fd # 0
    /\ ~ active
    /\ devAlive
    /\ LiveInRegistry = Crtcs

\* ------------------------------------------------------------------- C2

\* C2: when the handling of a pause that applies has ended, the flag is
\* false, whatever failed on the way and whatever had expired; and no pause
\* ends in a panic.
C2_PauseEndsInactive ==
    /\ (pc = "done" /\ AppliedPause(sig)) => active = FALSE
    /\ pc = "aborted" => ~ AppliedPause(sig)

\* a pause has ended in which a cursor clear and the release of the master
\* lock failed
C2_Witness ==
    /\ pc = "done"
    /\ AppliedPause(sig)
    /\ activeAtStart
    /\ Failed("clear_plane")
    /\ Failed("release_master_lock")

\* ------------------------------------------------------------------- C3

\* C3: when the handling of an activate that applies has ended, the flag is
\* true: after a successful reset, and also when the acquisition of the
\* master lock failed or reset_state returned an error.
C3_ActivateEndsActive ==
    (pc = "done" /\ AppliedActivate(sig)) => active = TRUE

\* an activate of a paused device has ended in which the acquisition of the
\* master lock failed and reset_state returned an error
C3_Witness ==
    /\ pc = "done"
    /\ AppliedActivate(sig)
    /\ ~ activeAtStart
    /\ Failed("acquire_master_lock")
    /\ resetRes = "Err"

\* ------------------------------------------------------------------- C4

\* C4: in a pause that applies the cursor plane is cleared exactly once on
\* every live surface of the registry and on no other, whichever clears fail;
\* the store of the flag follows all clears, and the release of the master
\* lock (made exactly when the observer is privileged and the device is
\* alive) follows the store.
C4_EveryLiveSurfaceCleared ==
    (pc = "done" /\ AppliedPause(sig)) =>
        /\ \A c \in Crtcs :
              Count("clear_plane", c) = IF c \in LiveInRegistry THEN 1 ELSE 0
        /\ Count("store_false", 0) = 1
        /\ Count("release_master_lock", 0) = IF privileged /\ devAlive THEN 1 ELSE 0
        /\ Before("clear_plane", "store_false")
        /\ Before("store_false", "release_master_lock")

\* a pause has ended in which the clear on the first surface failed, all
\* surfaces were alive and the master lock had to be released
C4_Witness ==
    /\ pc = "done"
    /\ AppliedPause(sig)
    /\ LiveInRegistry = Crtcs
    /\ Len(calls) = NumSurfaces + 2
    /\ calls[1].op = "clear_plane"
    /\ ~ calls[1].ok
    /\ calls[NumSurfaces].op = "clear_plane"
    /\ privileged /\ devAlive

\* ------------------------------------------------------------------- C5

\* every live surface of the registry has the garbage current state: no
\* connectors, a zeroed mode, and so a state that differs from its pending one
AllInvalidated ==
    \A c \in LiveInRegistry :
        /\ state[c].connectors = {}
        /\ state[c].mode = ZeroedMode
        /\ state[c] # pending[c]

\* reset_state has returned Ok(()) to activate
ResetReturnedOk == pc \in {"activate_return", "done"} /\ resetRes = "Ok"

\* C5 as claimed: whenever reset_state returns Ok, every live surface of the
\* registry has an empty connector set and the zeroed mode.
C5_OkMeansInvalidated == ResetReturnedOk => AllInvalidated

\* C5 as amended: whenever reset_state returns Ok and the device handle is
\* alive, every live surface of the registry has an empty connector set and
\* the zeroed mode, a state that differs from its pending state.
C5_OkWithDeviceMeansInvalidated == (ResetReturnedOk /\ devAlive) => AllInvalidated

\* reset_state has returned Ok with the device and all surfaces alive
C5_Witness ==
    /\ pc = "done"
    /\ resetRes = "Ok"
    /\ devAlive
    /\ LiveInRegistry = Crtcs
    /\ Count("atomic_commit", 0) = 1

\* ------------------------------------------------------------------- C6

\* ActivateSession has been handled right after a PauseSession, and every
\* call of both handlings succeeded
C6_Scenario ==
    /\ pc = "done"
    /\ sig.kind = "ActivateSession"
    /\ hist
    /\ AllOk(calls)

\* the flag went from false to true, one transaction was submitted, use_mode
\* was called once per live surface, in the order store, commit, use_mode
C6_Outcome ==
    /\ ~ activeAtStart
    /\ active
    /\ Count("store_true", 0) = 1
    /\ Count("atomic_commit", 0) = 1
    /\ \A c \in Crtcs :
          Count("use_mode", c) = IF c \in LiveInRegistry THEN 1 ELSE 0
    /\ Before("store_true", "atomic_commit")
    /\ Before("atomic_commit", "use_mode")

\* C6 as claimed: PauseSession followed by ActivateSession, every kernel call
\* succeeding, takes the flag from false to true, submits exactly one disable
\* transaction and calls use_mode once per live surface, in that order.
C6_PauseThenActivate == C6_Scenario => C6_Outcome

\* C6 as amended: the same, provided the device handle is alive when the
\* activate is handled.
C6_PauseThenActivateWithDevice == (C6_Scenario /\ devAlive) => C6_Outcome

\* the scenario has run with a privileged observer, the device and all
\* surfaces alive
C6_Witness ==
    /\ C6_Scenario
    /\ devAlive
    /\ privileged
    /\ LiveInRegistry = Crtcs
    /\ Count("use_mode", NumSurfaces) = 1

\* ------------------------------------------------------------------- C7

\* an ActivateDevice of this device that carries a replacement descriptor
C7_Case == sig.kind = "ActivateDevice" /\ AppliedActivate(sig) /\ sig.new_fd # 0

\* the descriptor names the connection of the device; dup2 ran once, as the
\* first call, before the master lock was asked for and the flag was stored
C7_Replaced ==
    /\ fdTable[DevFd] = "drm"
    /\ fdTable[sig.new_fd] = fdTable[DevFd]
    /\ Count("dup2", sig.new_fd) = 1
    /\ calls[1].op = "dup2"
    /\ Before("dup2", "acquire_master_lock")
    /\ Before("dup2", "store_true")

\* a failed dup2 ended the handler: no store, no reset
C7_Fatal ==
    (pc = "aborted" /\ Failed("dup2")) =>
        /\ PositionsOf("store_true") = {}
        /\ active = activeAtStart
        /\ PositionsOf("acquire_master_lock") = {}
        /\ PositionsOf("resource_handles") = {}
        /\ PositionsOf("atomic_commit") = {}
        /\ resetRes = "none"

\* C7 as claimed: after an ActivateDevice of this device with a replacement
\* descriptor the descriptor names the connection of the device, dup2 having
\* run exactly once and first; a failure of dup2 is fatal.
C7_DescriptorReplaced ==
    /\ (pc = "done" /\ C7_Case) => C7_Replaced
    /\ C7_Fatal

\* C7 as amended: the same, provided the device handle is alive.
C7_DescriptorReplacedWithDevice ==
    /\ (pc = "done" /\ C7_Case /\ devAlive) => C7_Replaced
    /\ C7_Fatal

\* a privileged observer of a paused device has replaced the descriptor,
\* asked for the master lock and stored the flag
C7_Witness ==
    /\ pc = "done"
    /\ C7_Case
    /\ devAlive
    /\ privileged
    /\ ~ activeAtStart
    /\ fdTable[OtherFd] = "drm"
    /\ Count("acquire_master_lock", 0) = 1

\* ------------------------------------------------------------------- C8

\* C8: when reset_state fails during an activate that applies, the failure is
\* handed back to the caller of the activation, and the flag stays true.
C8_ResetErrorReturned ==
    (pc = "done" /\ AppliedActivate(sig) /\ resetRes = "Err") =>
        /\ ret = "Err"
        /\ active

\* ------------------------------------------------------------------- C9

\* the request holds a write of value v and kind k to the property name of
\* object h, looked up in the mapping m
HasWrite(m, h, name, k, v) ==
    \E i \in 1 .. Len(req) :
        req[i] = [ obj |-> h, prop |-> m[h][name], kind |-> k, val |-> v ]

\* C9: a run of reset_state submits at most one atomic transaction; the
\* transaction holds, for every connector, a write that unsets CRTC_ID and,
\* for every CRTC, a write of false to ACTIVE and a write of 0 to MODE_ID, and
\* no other write, and it is submitted with the AllowModeset flag alone.
C9_DisableTransaction ==
    /\ Cardinality(PositionsOf("atomic_commit")) <= 1
    /\ PositionsOf("atomic_commit") # {} =>
          /\ commitFlags = {"AllowModeset"}
          /\ \A h \in Connectors : HasWrite(prop_mapping.conn, h, "CRTC_ID", "CRTC", 0)
          /\ \A c \in Crtcs :
                /\ HasWrite(prop_mapping.crtc, c, "ACTIVE", "Boolean", 0)
                /\ HasWrite(prop_mapping.crtc, c, "MODE_ID", "Unknown", 0)
          /\ Len(req) = Cardinality(Connectors) + 2 * Cardinality(Crtcs)

\* a transaction has been committed and the hardware is all disabled
C9_Witness ==
    /\ pc = "reset_surfaces"
    /\ Count("atomic_commit", 0) = 1
    /\ AllOk(calls)
    /\ \A h \in Connectors : hwCrtcOf[h] = 0
    /\ \A c \in Crtcs : ~ hwActive[c] /\ hwMode[c] = 0

\* ------------------------------------------------------------------ C10

\* the configuration last committed to the hardware for the output of CRTC c
HwConf(c) ==
    [ connectors |-> { h \in Connectors : hwCrtcOf[h] = c }, mode |-> hwMode[c] ]

\* C10: whenever the observer is not handling a signal, the current state of
\* every live surface is the configuration last committed to the hardware
\* for its output, or the garbage state (no connectors, zeroed mode).
C10_CurrentReflectsHardware ==
    pc \in {"idle", "done"} =>
        \A c \in LiveInRegistry :
            \/ state[c] = HwConf(c)
            \/ state[c].connectors = {} /\ state[c].mode = ZeroedMode

\* ------------------------------------------------------------------ C11

\* some call of op in the log failed
FailedIn(log, op) == \E i \in 1 .. Len(log) : log[i].op = op /\ ~ log[i].ok

\* the enumeration or the submission of this handling failed
EarlyFailure(log) == FailedIn(log, "resource_handles") \/ FailedIn(log, "atomic_commit")

\* C11: if the enumeration of the resources or the submission of the
\* transaction fails, reset_state returns an error and no surface is
\* modified: from the start of reset_state up to the return of the handler
\* every surface's current state, cursor state and mode blob stay as they
\* were, and no use_mode call is made.
C11_EarlyFailureTouchesNoSurface ==
    [][ /\ pc \in {"reset_state", "reset_build", "reset_commit"} =>
              UNCHANGED << state, cursor, blob >>
        /\ EarlyFailure(calls') =>
              /\ UNCHANGED << state, cursor, blob >>
              /\ pc' \in {"activate_return", "done"}
              /\ resetRes' = "Err"
              /\ \A i \in 1 .. Len(calls') : calls'[i].op # "use_mode" ]_vars

\* the submission failed with all surfaces alive and in their committed
\* state; activate has returned
C11_Witness ==
    /\ pc = "done"
    /\ FailedIn(calls, "atomic_commit")
    /\ resetRes = "Err"
    /\ LiveInRegistry = Crtcs
    /\ \A c \in Crtcs : state[c] = SurfaceState(c) /\ cursor[c] = ShownCursor(c)

\* ------------------------------------------------------------------ C12

\* the surface whose use_mode call failed in this handling (0: none)
FailedSurface ==
    IF FailedIn(calls, "use_mode")
       THEN calls[CHOOSE i \in 1 .. Len(calls) :
                       calls[i].op = "use_mode" /\ ~ calls[i].ok].obj
       ELSE 0

\* current state invalidated, stored cursor state not reset
OnlyInvalidated(c) ==
    /\ state[c].connectors = {}
    /\ state[c].mode = ZeroedMode
    /\ cursor[c] # [position |-> << >>, hotspot |-> << 0, 0 >>, framebuffer |-> 0]

\* C12: if use_mode fails for a surface, reset_state returns that error at
\* once (the failed call is the last call of the handling, the result is
\* Err), no later surface is regenerated, and no live surface is left with
\* only the invalidation applied: current state invalidated but cursor
\* state not reset.
C12_UseModeFailureLeavesNoHybrid ==
    (pc = "done" /\ FailedIn(calls, "use_mode")) =>
        /\ resetRes = "Err"
        /\ ~ calls[Len(calls)].ok /\ calls[Len(calls)].op = "use_mode"
        /\ \A c \in LiveInRegistry : c > FailedSurface => Count("use_mode", c) = 0
        /\ \A c \in LiveInRegistry : ~ OnlyInvalidated(c)

\* ------------------------------------------------------------------ C13

\* C13: when use_mode is invoked on a surface during reset_state, none of
\* that surface's locks (write lock on the current state, read lock on the
\* pending state, cursor mutex) is held.
C13_NoLockHeldAcrossUseMode ==
    pc = "reset_use_mode" => \A l \in locks : l[1] # cur

\* ------------------------------------------------------------------ C14

\* the positions of the calls of op in a log
PosIn(log, op) == { i \in 1 .. Len(log) : log[i].op = op }

\* every call of op1 in the log comes before every call of op2
Precedes(log, op1, op2) ==
    \A i \in PosIn(log, op1) : \A j \in PosIn(log, op2) : i < j

\* a master-lock call of the handling the step belongs to was refused
LockCallFails ==
    FailedIn(calls', "release_master_lock") \/ FailedIn(calls', "acquire_master_lock")

\* what a reader on another thread must never see: the flag true while the
\* process does not hold master
FlagImpliesMaster(flag, held) == flag => held

\* C14: for a privileged observer with a live device whose master-lock calls
\* succeed, the flag is never true while the process does not hold master:
\* it is so initially and every step keeps it so. pause stores false after
\* all cursor clears and before the release; activate acquires before it
\* stores true.
C14_FlagTrueOnlyWithMaster ==
    /\ (privileged /\ devAlive) => FlagImpliesMaster(active, master)
    /\ [][ /\ (privileged /\ devAlive /\ FlagImpliesMaster(active, master)
                 /\ ~ LockCallFails)
              => FlagImpliesMaster(active', master')
           /\ Precedes(calls', "clear_plane", "store_false")
           /\ Precedes(calls', "store_false", "release_master_lock")
           /\ Precedes(calls', "acquire_master_lock", "store_true") ]_vars

\* between the two writes of a privileged activate: master is held again,
\* the flag is still false
C14_Witness ==
    /\ privileged /\ devAlive
    /\ pc = "activate_store"
    /\ Count("acquire_master_lock", 0) = 1 /\ AllOk(calls)
    /\ master /\ ~ active

\* ------------------------------------------------------------------ C15

\* the observer is inside reset_state
InReset ==
    pc \in {"reset_state", "reset_build", "reset_commit", "reset_surfaces",
            "reset_use_mode", "reset_cursor"}

\* C15: activate stores the flag true before reset_state starts: all through
\* reset_state the flag reads true, the store precedes the enumeration, the
\* submission and every use_mode call, and up to the submission step no
\* transaction has been submitted. So the flag being true does not tell a
\* reader that the reset has completed (the witness is such a state).
C15_FlagTrueBeforeReset ==
    /\ InReset => active /\ Count("store_true", 0) = 1
    /\ Precedes(calls, "store_true", "resource_handles")
    /\ Precedes(calls, "store_true", "atomic_commit")
    /\ Precedes(calls, "store_true", "use_mode")
    /\ pc \in {"reset_state", "reset_build", "reset_commit"} =>
           PosIn(calls, "atomic_commit") = {}

\* what a reader can see after a pause: the flag is true again, the
\* transaction is built but not submitted, and a live surface still carries
\* the configuration from before the pause as its current state
C15_Witness ==
    /\ hist
    /\ pc = "reset_commit"
    /\ active
    /\ PosIn(calls, "atomic_commit") = {}
    /\ \E c \in LiveInRegistry : state[c] = SurfaceState(c)

\* ------------------------------------------------------------------ C16

\* C16: an unprivileged observer never releases or acquires master (and the
\* process never holds it). A privileged observer with a live device has
\* released exactly once when an applicable pause has returned, and has
\* attempted to acquire exactly once when an applicable activate has
\* returned; a refused release or acquire stops nothing: the pause still
\* returns with the flag false, the activate still stores the flag and runs
\* reset_state.
C16_MasterLockOncePerSignal ==
    /\ ~ privileged =>
           /\ PosIn(calls, "release_master_lock") = {}
           /\ PosIn(calls, "acquire_master_lock") = {}
           /\ ~ master
    /\ (pc = "done" /\ privileged /\ devAlive /\ AppliedPause(sig)) =>
           /\ Cardinality(PosIn(calls, "release_master_lock")) = 1
           /\ PosIn(calls, "acquire_master_lock") = {}
           /\ ~ active /\ ret = "unit"
    /\ (pc = "done" /\ privileged /\ devAlive /\ AppliedActivate(sig)) =>
           /\ Cardinality(PosIn(calls, "acquire_master_lock")) = 1
           /\ PosIn(calls, "release_master_lock") = {}
           /\ active /\ ret = "unit"
           /\ Cardinality(PosIn(calls, "store_true")) = 1
           /\ Cardinality(PosIn(calls, "resource_handles")) = 1

\* a privileged activate whose acquire was refused has returned
C16_Witness ==
    /\ pc = "done"
    /\ privileged /\ devAlive
    /\ AppliedActivate(sig)
    /\ FailedIn(calls, "acquire_master_lock")
    /\ active

\* ------------------------------------------------------------------ C17

\* the surface object c is left alone by the step
SurfaceUntouched(c) ==
    /\ state'[c] = state[c]
    /\ cursor'[c] = cursor[c]
    /\ blob'[c] = blob[c]
    /\ hwCursor'[c] = hwCursor[c]

\* C17: with the device handle dropped, an applicable activate still stores
\* the flag true but makes no other call (no dup2, no acquire, no
\* enumeration, no transaction, no use_mode), changes no surface, no
\* descriptor and nothing in the kernel, and reset_state reports Ok; an
\* applicable pause still clears the cursor plane of every live surface and
\* stores false, without a release. A surface that has expired is skipped by
\* pause and by reset_state: no call is made on it and no step changes it.
C17_ExpiredHandlesAreSkipped ==
    /\ [](/\ (pc = "done" /\ ~ devAlive /\ AppliedActivate(sig)) =>
                /\ active
                /\ resetRes = "Ok"
                /\ calls = << [op |-> "store_true", obj |-> 0, ok |-> TRUE] >>
          /\ (pc = "done" /\ ~ devAlive /\ AppliedPause(sig)) =>
                /\ ~ active
                /\ \A c \in LiveInRegistry : Count("clear_plane", c) = 1
                /\ PosIn(calls, "release_master_lock") = {}
          /\ \A i \in 1 .. Len(calls) :
                calls[i].op \in {"clear_plane", "use_mode"} =>
                    calls[i].obj \in LiveInRegistry)
    /\ [][ /\ (~ devAlive /\ AppliedActivate(sig')) =>
                  UNCHANGED << state, cursor, blob, hw, hwCursor, fdTable, master >>
           /\ \A c \in Crtcs : ~ live[c] => SurfaceUntouched(c) ]_vars

\* a privileged observer whose device handle and one surface have expired
\* has handled an ActivateDevice that carried a descriptor
C17_Witness ==
    /\ pc = "done"
    /\ ~ devAlive
    /\ privileged
    /\ AppliedActivate(sig) /\ sig.new_fd # 0
    /\ \E c \in Crtcs : ~ live[c]
    /\ LiveInRegistry # {}

\* ------------------------------------------------------------------ C18

\* the empty cursor value: no position, hotspot (0, 0), no framebuffer
IsEmptyCursor(v) ==
    v = [position |-> << >>, hotspot |-> << 0, 0 >>, framebuffer |-> 0]

MappingComplete ==
    /\ \A h \in Connectors :
          h \in DOMAIN prop_mapping.conn /\ "CRTC_ID" \in DOMAIN prop_mapping.conn[h]
    /\ \A h \in Crtcs :
          /\ h \in DOMAIN prop_mapping.crtc
          /\ {"MODE_ID", "ACTIVE"} \subseteq DOMAIN prop_mapping.crtc[h]

\* the enumeration of this handling succeeded
Enumerated == \E i \in PosIn(calls, "resource_handles") : calls[i].ok

\* C19: with a mapping that lacks an entry, reset_state aborts while it
\* builds the transaction: once the resources are enumerated the only way
\* out of the building step is the abort, with no result of reset_state and
\* no return of the handler; no transaction is ever submitted, no use_mode
\* call is ever made and every surface keeps the current state, cursor
\* state and mode blob it started with.
C19_MissingMappingAborts ==
    ~ MappingComplete =>
        /\ PosIn(calls, "atomic_commit") = {}
        /\ PosIn(calls, "use_mode") = {}
        /\ \A c \in Crtcs :
              /\ state[c] = SurfaceState(c)
              /\ cursor[c] = ShownCursor(c)
              /\ blob[c] = "created"
        /\ (Enumerated /\ pc # "reset_build") =>
              /\ pc = "aborted"
              /\ resetRes = "none"
              /\ ret = "none"

\* the abort itself: the enumeration succeeded, the flag is stored, and the
\* handler is gone
C19_Witness ==
    /\ ~ MappingComplete
    /\ Enumerated
    /\ pc = "aborted"
    /\ active

\* ------------------------------------------------------------------ C20

\* a device-scoped signal for this device that carries no descriptor
MatchingDeviceSignal(s) ==
    /\ s.kind \in {"PauseDevice", "ActivateDevice"}
    /\ s.major = DevMajor /\ s.minor = DevMinor
    /\ s.new_fd = 0

\* the session-wide signal of the same direction
SessionTwin(s) ==
    [ kind |-> IF s.kind = "PauseDevice" THEN "PauseSession" ELSE "ActivateSession",
      major |-> 0, minor |-> 0, new_fd |-> 0 ]

\* C20: a PauseDevice with matching identity is handled as PauseSession, an
\* ActivateDevice with matching identity and no descriptor as
\* ActivateSession: from any state, the step that dispatches the device
\* signal leads to the state the dispatch of its session twin leads to (the
\* record of the signal aside), and the handling that follows never enters
\* the descriptor step, so the same steps with the same kernel calls follow
\* for the same kernel outcomes.
C20_MatchingDeviceSignalAsSessionSignal ==
    [][ /\ (pc = "idle" /\ pc' # "idle" /\ MatchingDeviceSignal(sig')) =>
              /\ IF sig'.kind = "PauseDevice"
                    THEN pause(SessionTwin(sig'))
                    ELSE activate(SessionTwin(sig'))
              /\ UNCHANGED << observerConst, activeAtStart, req, calls,
                              commitFlags, resetRes, hist >>
        /\ MatchingDeviceSignal(sig') =>
              /\ pc' # "activate_dup2"
              /\ PosIn(calls', "dup2") = {}
              /\ pc' # "idle" ]_vars

\* a matching ActivateDevice without descriptor has been handled like an
\* ActivateSession: flag stored, transaction submitted, Ok
C20_Witness ==
    /\ pc = "done"
    /\ sig.kind = "ActivateDevice"
    /\ MatchingDeviceSignal(sig)
    /\ active
    /\ Count("atomic_commit", 0) = 1
    /\ resetRes = "Ok"

====
